---- MODULE Spec2Model ----
(***************************************************************************)
(* A model of streaming/frequent.py: the frequent-items Counter, the       *)
(* quickselect routine it uses to pick its rebalance threshold, and the    *)
(* Sketch operators that delegate to it.                                   *)
(***************************************************************************)
EXTENDS Integers, Sequences, FiniteSets, TLC

\* ------------------------------------------------------------------ bounds
\* capacities the freely driven Counters are constructed with
Capacities == {1, 2}
\* largest weight a free update passes
MaxVal == 2
\* cap on the lengths of the freely driven Counters, summed over the slots
MaxLength == 5
\* longest list select() is given on its own, and the largest number in it
MaxSeqLen == 4
MaxItem == 2

\* ------------------------------------------------------- program constants
\* Counter.__init__(k=4096, ...)
DefaultK == 4096
\* sample = min(k, 1024)
DefaultSample == 1024

\* keys of the free updates, and the keys the test scenarios use
Keys == {"foo", "bar", "baz"}
TopKKeys == {"0", "1", "2", "3", "4"}
AllKeys == Keys \cup TopKKeys

\* the variables a driver holds Counters in (s, o, m in the tests); the
\* results of copy() and of `|` are assigned to m
Slots == {1, 2, 3}
Result == 3

\* an optional argument: None is <<>>, a given value n is <<n>>
None == <<>>
Some(n) == <<n>>

VARIABLES
    counters,   \* slot -> the Counter object's scalar fields and its index reference
    dicts,      \* the heap of dict objects: reference -> (key -> count)
    raised,     \* the exception the most recent call raised, or "none"
    truth,      \* slot -> key -> true cumulative weight (the tests' `values`)
    swept,      \* slot -> _decrement() has run since construction or clear()
    scenario,   \* the scripted test being replayed, or "none" when driven freely
    pc,         \* position in the scripted test
    data,       \* test_select: the list handed to select(), as the calls left it
    answer      \* test_select: the last call of select(), or None before the first

vars == <<counters, dicts, raised, truth, swept, scenario, pc, data, answer>>

\* ------------------------------------------------------------ dict helpers
EmptyDict == [k \in {} |-> 0]

Get(d, k, default) == IF k \in DOMAIN d THEN d[k] ELSE default

Put(d, k, v) == [x \in (DOMAIN d) \cup {k} |-> IF x = k THEN v ELSE d[x]]

Min(a, b) == IF a <= b THEN a ELSE b

\* ------------------------------------------------------------------ select
\* inner loop of partition on i: `i += 1; if i == hi or seq[i] >= v: break`
\* (seq is zero-indexed in the source: seq[i] is seq[i + 1] here)
RECURSIVE ScanUp(_, _, _, _)
ScanUp(seq, i, hi, v) ==
    LET i1 == i + 1
    IN  IF i1 = hi \/ seq[i1 + 1] >= v THEN i1 ELSE ScanUp(seq, i1, hi, v)

\* inner loop of partition on j: `j -= 1; if j == lo or seq[j] <= v: break`
RECURSIVE ScanDown(_, _, _, _)
ScanDown(seq, j, lo, v) ==
    LET j1 == j - 1
    IN  IF j1 = lo \/ seq[j1 + 1] <= v THEN j1 ELSE ScanDown(seq, j1, lo, v)

Swap(seq, a, b) ==
    [seq EXCEPT ![a + 1] = seq[b + 1], ![b + 1] = seq[a + 1]]

\* outer `while True` of partition; the result is the final sequence and j
RECURSIVE PartitionLoop(_, _, _, _, _, _)
PartitionLoop(seq, i, j, lo, hi, v) ==
    LET i1 == ScanUp(seq, i, hi, v)
        j1 == ScanDown(seq, j, lo, v)
    IN  IF i1 >= j1
        THEN [seq |-> Swap(seq, lo, j1), idx |-> j1]
        ELSE PartitionLoop(Swap(seq, i1, j1), i1, j1, lo, hi, v)

partition(seq, lo, hi) == PartitionLoop(seq, lo, hi + 1, lo, hi, seq[lo + 1])

RECURSIVE qselectSwapped(_, _, _, _)
qselectSwapped(seq, lo, hi, pivot) ==
    IF hi > lo
    THEN LET p == partition(seq, lo, hi)
         IN  IF p.idx = pivot THEN p.seq[p.idx + 1]
             ELSE IF p.idx < pivot THEN qselectSwapped(p.seq, lo, p.idx - 1, pivot)
             ELSE qselectSwapped(p.seq, p.idx + 1, hi, pivot)
    ELSE seq[pivot + 1]

RECURSIVE qselect(_, _, _, _)
qselect(seq, lo, hi, pivot) ==
    IF hi > lo
    THEN LET p == partition(seq, lo, hi)
         IN  IF p.idx = pivot THEN p.seq[p.idx + 1]
             ELSE IF p.idx > pivot THEN qselect(p.seq, lo, p.idx - 1, pivot)
             ELSE qselect(p.seq, p.idx + 1, hi, pivot)
    ELSE seq[pivot + 1]

\* the list qselect leaves behind: select() partitions its argument in place
RECURSIVE Reordered(_, _, _, _)
Reordered(seq, lo, hi, pivot) ==
    IF hi > lo
    THEN LET p == partition(seq, lo, hi)
         IN  IF p.idx = pivot THEN p.seq
             ELSE IF p.idx > pivot THEN Reordered(p.seq, lo, p.idx - 1, pivot)
             ELSE Reordered(p.seq, p.idx + 1, hi, pivot)
    ELSE seq

selectUnpartitioned(sequence, k) ==
    IF k < 0 \/ k >= Len(sequence)
    THEN [raised |-> "ValueError", value |-> 0]
    ELSE [raised |-> "none", value |-> sequence[k + 1]]

\* without the range test a negative k indexes from the end of the list and
\* any other k outside it raises IndexError
selectUnchecked(sequence, k) ==
    IF k >= Len(sequence) \/ k < 0 - Len(sequence)
    THEN [raised |-> "IndexError", value |-> 0]
    ELSE IF k < 0
    THEN [raised |-> "none",
          value |-> Reordered(sequence, 0, Len(sequence) - 1, k)[Len(sequence) + k + 1]]
    ELSE [raised |-> "none", value |-> qselect(sequence, 0, Len(sequence) - 1, k)]

\* select(sequence, k): the value, or the ValueError of an out-of-range k
select(sequence, k) ==
    IF k < 0 \/ k >= Len(sequence)
    THEN [raised |-> "ValueError", value |-> 0]
    ELSE [raised |-> "none", value |-> qselect(sequence, 0, Len(sequence) - 1, k)]

\* ----------------------------------------------------------------- Counter
\* a Counter with its dict in place: what the methods below read and return
NoCounter ==
    [size |-> 0, sample |-> 0, order |-> 0, length |-> 0, offset |-> 0,
     index |-> EmptyDict]

CounterInitOrderUnchecked(k, sample, order) ==
    LET kk == IF k = None THEN DefaultK ELSE k[1]
        s  == IF sample = None THEN Min(kk, DefaultSample) ELSE sample[1]
        o  == IF order = None THEN s \div 2 ELSE order[1]
    IN  IF s < 0 \/ s > kk
        THEN [raised |-> "ValueError", c |-> NoCounter]
        ELSE [raised |-> "none",
              c |-> [size |-> kk, sample |-> s, order |-> o, length |-> 0,
                     offset |-> 0, index |-> EmptyDict]]

\* Counter.__init__(k, sample, order): the new object, or the ValueError
CounterInit(k, sample, order) ==
    LET kk == IF k = None THEN DefaultK ELSE k[1]
        s  == IF sample = None THEN Min(kk, DefaultSample) ELSE sample[1]
        o  == IF order = None THEN s \div 2 ELSE order[1]
    IN  IF s < 0 \/ s > kk
        THEN [raised |-> "ValueError", c |-> NoCounter]
        ELSE IF o < 0 \/ o >= s
        THEN [raised |-> "ValueError", c |-> NoCounter]
        ELSE [raised |-> "none",
              c |-> [size |-> kk, sample |-> s, order |-> o, length |-> 0,
                     offset |-> 0, index |-> EmptyDict]]

\* Counter.__len__
len(c) == c.length

\* Counter.__contains__
contains(c, key) == key \in DOMAIN c.index

\* Counter.frequency: (lower, upper)
frequency(c, key) ==
    LET val == Get(c.index, key, 0)
    IN  <<val, val + c.offset>>

\* random.sample(population, n): every list of n values at distinct positions,
\* given here by the keys whose values are drawn
Samples(index, n) ==
    {s \in [1..n -> DOMAIN index] : \A a, b \in 1..n : a # b => s[a] # s[b]}

EvictedStrict(val, threshold) == val < threshold

\* the sweep's test `val <= threshold`
Evicted(val, threshold) == val <= threshold

SweepOffsetKept(c, threshold) ==
    LET zeros == {key \in DOMAIN c.index : Evicted(c.index[key], threshold)}
    IN  [c EXCEPT
            !.index = [key \in (DOMAIN c.index) \ zeros |-> c.index[key] - threshold]]

\* the sweep of _decrement for a chosen threshold
Sweep(c, threshold) ==
    LET zeros == {key \in DOMAIN c.index : Evicted(c.index[key], threshold)}
    IN  [c EXCEPT
            !.index = [key \in (DOMAIN c.index) \ zeros |-> c.index[key] - threshold],
            !.offset = c.offset + threshold]

\* Counter._decrement: one outcome per sample random.sample can return
_decrement(c) ==
    IF c.sample < 0 \/ c.sample > Cardinality(DOMAIN c.index)
    THEN {[c |-> c, raised |-> "ValueError", threshold |-> 0]}
    ELSE {LET picked == [p \in 1..c.sample |-> c.index[s[p]]]
              sel == select(picked, c.order)
          IN  IF sel.raised # "none"
              THEN [c |-> c, raised |-> sel.raised, threshold |-> 0]
              ELSE [c |-> Sweep(c, sel.value), raised |-> "none",
                    threshold |-> sel.value]
          : s \in Samples(c.index, c.sample)}

HasRoomEarly(c) == Cardinality(DOMAIN c.index) < c.size - 1

HasRoomOffByOne(c) == Cardinality(DOMAIN c.index) <= c.size

\* the test `len(self.index) < self.size` of update
HasRoom(c) == Cardinality(DOMAIN c.index) < c.size

RejectedLate(c, val) ==
    {[c |-> [c EXCEPT !.length = c.length + val], raised |-> "ValueError",
      swept |-> FALSE]}

\* `raise ValueError('value out of range')`, which update reaches before it
\* changes anything
Rejected(c, val) == {[c |-> c, raised |-> "ValueError", swept |-> FALSE]}

AddLengthOne(c, val) == [c EXCEPT !.length = c.length + 1]

\* `self.length += val`
AddLength(c, val) == [c EXCEPT !.length = c.length + val]

OutweighsOrEquals(val, c) == val >= c

\* `val > c`: what is left of the new key's weight after the sweep
Outweighs(val, c) == val > c

FalsyNever(val) == FALSE

\* `not val`, the test update() returns on before it looks at anything else
Falsy(val) == val = 0

\* Counter.update: the outcomes of one call, each the Counter it leaves, the
\* exception it raised and whether it ran _decrement
update(c, key, val) ==
    IF Falsy(val) THEN {[c |-> c, raised |-> "none", swept |-> FALSE]}
    ELSE IF val < 0 THEN Rejected(c, val)
    ELSE
    LET c1 == AddLength(c, val)
    IN  IF key \in DOMAIN c1.index
        THEN {[c |-> [c1 EXCEPT !.index[key] = @ + val],
               raised |-> "none", swept |-> FALSE]}
        ELSE IF HasRoom(c1)
        THEN {[c |-> [c1 EXCEPT !.index = Put(c1.index, key, val)],
               raised |-> "none", swept |-> FALSE]}
        ELSE {IF d.raised # "none"
              THEN [c |-> d.c, raised |-> d.raised, swept |-> FALSE]
              ELSE IF Outweighs(val, d.threshold)
              THEN IF ~HasRoom(d.c)
                   THEN [c |-> d.c, raised |-> "AssertionError", swept |-> TRUE]
                   ELSE [c |-> [d.c EXCEPT
                                  !.index = Put(d.c.index, key, val - d.threshold)],
                         raised |-> "none", swept |-> TRUE]
              ELSE [c |-> d.c, raised |-> "none", swept |-> TRUE]
              : d \in _decrement(c1)}

\* a merge that copies other's entries over its own, as dict.update would
ReplayOverwrite(outs, other, items) ==
    {[c |-> [o.c EXCEPT !.index =
                [x \in (DOMAIN o.c.index) \cup (DOMAIN other.index) |->
                    IF x \in DOMAIN other.index THEN other.index[x] ELSE o.c.index[x]]],
      raised |-> o.raised, swept |-> o.swept]
     : o \in outs}

\* the loop of merge over other.index.iteritems(), in the order `items` lists
\* the keys; an exception from update ends it
RECURSIVE Replay(_, _, _)
Replay(outs, other, items) ==
    IF items = <<>> THEN outs
    ELSE Replay(
            UNION {IF o.raised # "none" THEN {o}
                   ELSE {[c |-> n.c, raised |-> n.raised,
                          swept |-> o.swept \/ n.swept]
                         : n \in update(o.c, Head(items), other.index[Head(items)])}
                   : o \in outs},
            other, Tail(items))

MergedLengthReplayed(c, other, replayed) == replayed.length

\* the length merge computes before the loop and assigns after it
MergedLength(c, other, replayed) == c.length + other.length

MergedOffsetOwn(replayed, other) == replayed.offset

\* `self.offset += other.offset`
MergedOffset(replayed, other) == replayed.offset + other.offset

\* Counter.merge: the outcomes over every iteration order of other's dict
merge(c, other) ==
    UNION {{IF o.raised # "none" THEN o
            ELSE [o EXCEPT !.c.length = MergedLength(c, other, o.c),
                           !.c.offset = MergedOffset(o.c, other)]
            : o \in Replay({[c |-> c, raised |-> "none", swept |-> FALSE]},
                           other, items)}
           : items \in Samples(other.index, Cardinality(DOMAIN other.index))}

clearKeepsOffset(c) == [c EXCEPT !.index = EmptyDict, !.length = 0]

\* Counter.clear
clear(c) == [c EXCEPT !.index = EmptyDict, !.length = 0, !.offset = 0]

\* dict.update(other) on the dict d
DictUpdate(d, other) ==
    [x \in (DOMAIN d) \cup (DOMAIN other) |->
        IF x \in DOMAIN other THEN other[x] ELSE d[x]]

\* Counter.copy
copy(c) ==
    LET new == CounterInit(Some(c.size), Some(c.sample), Some(c.order))
    IN  [new EXCEPT !.c.length = c.length, !.c.offset = c.offset,
                    !.c.index = DictUpdate(new.c.index, c.index)]

\* ------------------------------------------------------------ the objects
\* the Counter a slot holds, with the dict its index refers to
Deref(s) == [counters[s] EXCEPT !.index = dicts[counters[s].index]]

\* a slot no Counter was assigned to yet holds NoCounter, which no
\* construction produces
IsBound(s) == counters[s].size > 0

\* a Counter method's result written back through self and self.index
Stored(s, c) ==
    /\ counters' = [counters EXCEPT ![s] = [c EXCEPT !.index = counters[s].index]]
    /\ dicts' = [dicts EXCEPT ![counters[s].index] = c.index]

CopyIndexShared(src, fresh) == counters[src].index

\* the dict a copy holds: the one its own constructor made
CopyIndex(src, fresh) == fresh

\* a Counter object newly bound to slot d, whose dict is at `ref`
Bound(d, c, ref) ==
    /\ counters' = [counters EXCEPT ![d] = [c EXCEPT !.index = ref]]
    /\ dicts' = [dicts EXCEPT ![ref] = c.index]

ZeroTruth == [k \in AllKeys |-> 0]

\* ---------------------------------------------------------------- the calls
\* counters[s].update(key, val)
DoUpdate(s, key, val) ==
    \E out \in update(Deref(s), key, val) :
        /\ Stored(s, out.c)
        /\ raised' = out.raised
        /\ truth' = IF out.raised = "none"
                    THEN [truth EXCEPT ![s][key] = @ + val]
                    ELSE truth
        /\ swept' = [swept EXCEPT ![s] = @ \/ out.swept]

\* counters[s].merge(counters[o]), which is also Sketch.__ior__
DoMerge(s, o) ==
    \E out \in merge(Deref(s), Deref(o)) :
        /\ Stored(s, out.c)
        /\ raised' = out.raised
        /\ truth' = IF out.raised = "none"
                    THEN [truth EXCEPT ![s] = [k \in AllKeys |-> truth[s][k] + truth[o][k]]]
                    ELSE truth
        /\ swept' = [swept EXCEPT ![s] = @ \/ out.swept]

\* counters[s].clear()
DoClear(s) ==
    /\ Stored(s, clear(Deref(s)))
    /\ raised' = "none"
    /\ truth' = [truth EXCEPT ![s] = ZeroTruth]
    /\ swept' = [swept EXCEPT ![s] = FALSE]

\* counters[d] = counters[s].copy()
DoCopy(s, d) ==
    LET cp == copy(Deref(s))
    IN  /\ Bound(d, cp.c, CopyIndex(s, d))
        /\ raised' = cp.raised
        /\ truth' = [truth EXCEPT ![d] = truth[s]]
        /\ swept' = [swept EXCEPT ![d] = swept[s]]

\* counters[d] = counters[s] | counters[o], Sketch.__or__:
\* Sketch(counter=self._cnt.copy().merge(other._cnt))
DoOr(s, o, d) ==
    LET cp == copy(Deref(s))
    IN  \E out \in merge(cp.c, Deref(o)) :
            /\ raised' = out.raised
            /\ IF out.raised = "none"
               THEN /\ Bound(d, out.c, CopyIndex(s, d))
                    /\ truth' = [truth EXCEPT
                                   ![d] = [k \in AllKeys |-> truth[s][k] + truth[o][k]]]
                    /\ swept' = [swept EXCEPT ![d] = swept[s] \/ out.swept]
               ELSE UNCHANGED <<counters, dicts, truth, swept>>

\* ------------------------------------------------------------ free driving
\* the constructor arguments a free driver passes
CtorArgs ==
    {Some(k) : k \in Capacities}
        \X ({None} \cup {Some(n) : n \in Capacities})
        \X ({None} \cup {Some(n) : n \in 0..1})

\* the Counters construction produces from them
Constructed ==
    {CounterInit(a[1], a[2], a[3]).c :
        a \in {b \in CtorArgs : CounterInit(b[1], b[2], b[3]).raised = "none"}}

Free == scenario = "none"

RECURSIVE SumOver(_, _)
SumOver(f, S) ==
    IF S = {} THEN 0
    ELSE LET x == CHOOSE y \in S : TRUE IN f[x] + SumOver(f, S \ {x})

\* the lengths of the Counters in the slots, summed
TotalLength == SumOver([s \in Slots |-> counters[s].length], Slots)

Update(s, key, val) ==
    /\ Free
    /\ IsBound(s)
    /\ TotalLength + val <= MaxLength
    /\ DoUpdate(s, key, val)
    /\ UNCHANGED <<scenario, pc, data, answer>>

Merge(s, o) ==
    /\ Free
    /\ IsBound(s) /\ IsBound(o)
    /\ TotalLength + counters[o].length <= MaxLength
    /\ DoMerge(s, o)
    /\ UNCHANGED <<scenario, pc, data, answer>>

Clear(s) ==
    /\ Free
    /\ IsBound(s)
    /\ DoClear(s)
    /\ UNCHANGED <<scenario, pc, data, answer>>

Copy(s, d) ==
    /\ Free
    /\ IsBound(s)
    /\ s # d
    /\ TotalLength - counters[d].length + counters[s].length <= MaxLength
    /\ DoCopy(s, d)
    /\ UNCHANGED <<scenario, pc, data, answer>>

Or(s, o, d) ==
    /\ Free
    /\ IsBound(s) /\ IsBound(o)
    /\ d # s
    /\ TotalLength - counters[d].length + counters[s].length + counters[o].length
          <= MaxLength
    /\ DoOr(s, o, d)
    /\ UNCHANGED <<scenario, pc, data, answer>>

\* s, o = Counter(...), Counter(...); m is not assigned yet
InitFree ==
    /\ scenario = "none"
    /\ pc = 0
    /\ \E c1, c2 \in Constructed :
          counters = [s \in Slots |->
                        IF s = 1 THEN [c1 EXCEPT !.index = s]
                        ELSE IF s = 2 THEN [c2 EXCEPT !.index = s]
                        ELSE [NoCounter EXCEPT !.index = s]]
    /\ dicts = [s \in Slots |-> EmptyDict]
    /\ raised = "none"
    /\ truth = [s \in Slots |-> ZeroTruth]
    /\ swept = [s \in Slots |-> FALSE]
    /\ data = <<>>
    /\ answer = None

\* ------------------------------------------------------- scripted driving
ScriptCall(op, s, o, key, val) ==
    [op |-> op, self |-> s, other |-> o, key |-> key, val |-> val]

\* test_top_k: one sketch of k=5; 'foo' by 100, then '0'..'4' by 1000..5000
TopKScript ==
    <<ScriptCall("update", 1, 0, "foo", 100),
      ScriptCall("update", 1, 0, "0", 1000),
      ScriptCall("update", 1, 0, "1", 2000),
      ScriptCall("update", 1, 0, "2", 3000),
      ScriptCall("update", 1, 0, "3", 4000),
      ScriptCall("update", 1, 0, "4", 5000)>>

\* the doctest of __or__, with o.update('bar', 100) of the doctest of __ior__:
\* s, o = Sketch(), Sketch(); ...; m = s | o
UnionScript ==
    <<ScriptCall("update", 1, 0, "foo", 100),
      ScriptCall("update", 2, 0, "foo", 100),
      ScriptCall("update", 2, 0, "bar", 100),
      ScriptCall("or", 1, 2, "", 0)>>

\* test_merge: m = s | o; m.update('bar', 100); s |= m
MergeScript ==
    <<ScriptCall("update", 1, 0, "foo", 100),
      ScriptCall("update", 2, 0, "foo", 100),
      ScriptCall("or", 1, 2, "", 0),
      ScriptCall("update", Result, 0, "bar", 100),
      ScriptCall("ior", 1, Result, "", 0)>>

Script(name) ==
    IF name = "top_k" THEN TopKScript
    ELSE IF name = "union" THEN UnionScript
    ELSE IF name = "merge" THEN MergeScript
    ELSE <<>>

\* the Counters a scripted test creates before its first call
ScriptCounters(name) ==
    IF name = "top_k"
    THEN [s \in Slots |->
            IF s = 1 THEN CounterInit(Some(5), None, None).c ELSE NoCounter]
    ELSE [s \in Slots |->
            IF s \in {1, 2} THEN CounterInit(None, None, None).c ELSE NoCounter]

Finished == scenario # "none" /\ pc > Len(Script(scenario))

\* the next call of the scripted test
ScriptedUpdate ==
    /\ scenario # "none" /\ pc <= Len(Script(scenario))
    /\ Script(scenario)[pc].op = "update"
    /\ LET call == Script(scenario)[pc]
       IN  DoUpdate(call.self, call.key, call.val)
    /\ pc' = pc + 1
    /\ UNCHANGED <<scenario, data, answer>>

ScriptedOr ==
    /\ scenario # "none" /\ pc <= Len(Script(scenario))
    /\ Script(scenario)[pc].op = "or"
    /\ LET call == Script(scenario)[pc]
       IN  DoOr(call.self, call.other, Result)
    /\ pc' = pc + 1
    /\ UNCHANGED <<scenario, data, answer>>

ScriptedIor ==
    /\ scenario # "none" /\ pc <= Len(Script(scenario))
    /\ Script(scenario)[pc].op = "ior"
    /\ LET call == Script(scenario)[pc]
       IN  DoMerge(call.self, call.other)
    /\ pc' = pc + 1
    /\ UNCHANGED <<scenario, data, answer>>

InitScripted ==
    /\ scenario \in {"top_k", "union", "merge"}
    /\ pc = 1
    /\ counters = [s \in Slots |-> [ScriptCounters(scenario)[s] EXCEPT !.index = s]]
    /\ dicts = [s \in Slots |-> EmptyDict]
    /\ raised = "none"
    /\ truth = [s \in Slots |-> ZeroTruth]
    /\ swept = [s \in Slots |-> FALSE]
    /\ data = <<>>
    /\ answer = None

Init == InitFree \/ InitScripted

\* the weights a free driver passes: zero and the positive ones
Weights == 0..MaxVal

\* and the ones update() rejects
BadWeights == {-1, -MaxVal}

Next ==
    \/ \E s \in Slots, key \in Keys, val \in Weights : Update(s, key, val)
    \/ \E s, o \in Slots : Merge(s, o)
    \/ \E s \in Slots : Clear(s)
    \/ \E s \in Slots : Copy(s, Result)
    \/ \E s, o \in Slots : Or(s, o, Result)
    \/ ScriptedUpdate
    \/ ScriptedOr
    \/ ScriptedIor

Spec == Init /\ [][Next]_vars

\* the Counters driven by update(), clear() and copy() alone
NextUpdates ==
    \/ \E s \in Slots, key \in Keys, val \in Weights : Update(s, key, val)
    \/ \E s \in Slots : Clear(s)
    \/ \E s \in Slots : Copy(s, Result)

SpecUpdates == InitFree /\ [][NextUpdates]_vars

\* two Counters driven by update() with any weight, merge() and clear()
NextRejects ==
    \/ \E s \in Slots, key \in Keys, val \in Weights \cup BadWeights :
          Update(s, key, val)
    \/ \E s, o \in Slots : Merge(s, o)
    \/ \E s \in Slots : Clear(s)

SpecRejects == InitFree /\ [][NextRejects]_vars

\* ------------------------------------------------------------ construction
\* counters[s] = Counter(k, sample, order); a constructor that raises leaves
\* the variable unassigned
DoNew(s, k, sample, order) ==
    LET new == CounterInit(k, sample, order)
    IN  /\ raised' = new.raised
        /\ IF new.raised = "none"
           THEN /\ Bound(s, new.c, counters[s].index)
                /\ truth' = [truth EXCEPT ![s] = ZeroTruth]
                /\ swept' = [swept EXCEPT ![s] = FALSE]
           ELSE UNCHANGED <<counters, dicts, truth, swept>>

\* the arguments a driver may try, the defaults and the out-of-range ones
\* included
AnyCtorArgs ==
    ({None} \cup {Some(k) : k \in 0..2})
        \X ({None} \cup {Some(n) : n \in -1..3})
        \X ({None} \cup {Some(n) : n \in -1..2})

New(s, a) ==
    /\ Free
    /\ ~IsBound(s)
    /\ DoNew(s, a[1], a[2], a[3])
    /\ UNCHANGED <<scenario, pc, data, answer>>

\* no Counter is constructed yet
InitUnbound ==
    /\ scenario = "none"
    /\ pc = 0
    /\ counters = [s \in Slots |-> [NoCounter EXCEPT !.index = s]]
    /\ dicts = [s \in Slots |-> EmptyDict]
    /\ raised = "none"
    /\ truth = [s \in Slots |-> ZeroTruth]
    /\ swept = [s \in Slots |-> FALSE]
    /\ data = <<>>
    /\ answer = None

\* two Counters constructed with any arguments, then driven by update() with
\* non-negative weights, merge() and clear()
NextConstruct ==
    \/ \E s \in Slots \ {Result}, a \in AnyCtorArgs : New(s, a)
    \/ \E s \in Slots, key \in Keys, val \in Weights : Update(s, key, val)
    \/ \E s, o \in Slots : Merge(s, o)
    \/ \E s \in Slots : Clear(s)

SpecConstruct == InitUnbound /\ [][NextConstruct]_vars

\* ------------------------------------------------------------- test_select
\* the lists test_select draws, and the positions it asks for: every valid
\* one, -1 and len(data), and their neighbours
Lists == UNION {[1..n -> 0..MaxItem] : n \in 0..MaxSeqLen}

Ranks == -2..(MaxSeqLen + 1)

\* self.select(data, k): the same list is handed to every call, in the order
\* the call before left it; a call that raised never reached qselect
Select(k) ==
    /\ scenario = "select"
    /\ LET out == select(data, k)
       IN  /\ answer' = [k |-> k, given |-> data, raised |-> out.raised,
                         value |-> out.value]
           /\ data' = IF out.raised = "none"
                      THEN Reordered(data, 0, Len(data) - 1, k)
                      ELSE data
    /\ UNCHANGED <<counters, dicts, raised, truth, swept, scenario, pc>>

InitSelect ==
    /\ scenario = "select"
    /\ pc = 0
    /\ data \in Lists
    /\ answer = None
    /\ counters = [s \in Slots |-> [NoCounter EXCEPT !.index = s]]
    /\ dicts = [s \in Slots |-> EmptyDict]
    /\ raised = "none"
    /\ truth = [s \in Slots |-> ZeroTruth]
    /\ swept = [s \in Slots |-> FALSE]

NextSelect == \E k \in Ranks : Select(k)

SpecSelect == InitSelect /\ [][NextSelect]_vars

\* ------------------------------------------------------------------ claims

Tracked(s) == DOMAIN dicts[counters[s].index]

TableSum(s) == SumOver(dicts[counters[s].index], Tracked(s))

TruthSum(s) == SumOver(truth[s], AllKeys)

\* C1: bound validity. In every state reached by updates and merges, for every
\* Counter and every key, tracked or not, frequency(key) = (lower, upper) has
\* lower <= true weight of the key <= upper, and upper - lower is the offset.
C1_BoundValidity ==
    \A s \in Slots : IsBound(s) =>
        \A k \in AllKeys :
            LET f == frequency(Deref(s), k)
            IN  /\ f[1] <= truth[s][k]
                /\ truth[s][k] <= f[2]
                /\ f[2] - f[1] = counters[s].offset

\* a Counter that never swept yet carries an offset, so it was merged with a
\* swept one, and it underestimates a key the other had evicted
C1_Witness ==
    \E s \in Slots, k \in Keys :
        /\ IsBound(s) /\ ~swept[s] /\ counters[s].offset > 0
        /\ frequency(Deref(s), k)[1] < truth[s][k]
        /\ truth[s][k] <= frequency(Deref(s), k)[2]

\* C2: capacity invariant. In every reachable state no Counter tracks more
\* keys than the capacity it was constructed with.
C2_Capacity ==
    \A s \in Slots : IsBound(s) => Cardinality(Tracked(s)) <= counters[s].size

\* a Counter that swept and whose table is full again
C2_Witness ==
    \E s \in Slots :
        IsBound(s) /\ swept[s] /\ Cardinality(Tracked(s)) = counters[s].size

\* C3: every rebalance frees a slot. No call ever fails the assertion
\* `len(self.index) < self.size`, and in every reachable state with a full
\* table every sample _decrement can draw evicts at least one tracked key.
C3_RebalanceFreesSlot ==
    /\ raised # "AssertionError"
    /\ \A s \in Slots :
          (IsBound(s) /\ Cardinality(Tracked(s)) = counters[s].size) =>
              \A d \in _decrement(Deref(s)) :
                  /\ d.raised = "none"
                  /\ Cardinality(DOMAIN d.c.index) < counters[s].size
                  /\ \E k \in Tracked(s) : k \notin DOMAIN d.c.index

\* an update swept a full table of two keys and inserted its own key
C3_Witness ==
    \E s \in Slots :
        /\ IsBound(s) /\ swept[s] /\ raised = "none"
        /\ counters[s].size = 2
        /\ Cardinality(Tracked(s)) = 2

\* C4: length conservation. Under update(), clear() and copy() alone the
\* length of a Counter is the sum of the weights passed to it, the weights of
\* dropped and evicted keys included.
C4_LengthConservation ==
    \A s \in Slots : IsBound(s) => len(Deref(s)) = TruthSum(s)

\* a Counter that swept and holds less than was passed to it
C4_Witness ==
    \E s \in Slots :
        /\ IsBound(s) /\ swept[s]
        /\ \E k \in Keys : truth[s][k] > 0 /\ k \notin Tracked(s)
        /\ TableSum(s) + counters[s].offset < len(Deref(s))

\* C5: merge length conservation. In every reachable state, for every two
\* Counters A and B, every outcome of A.merge(B) and of A | B returns normally
\* with length = A's length before + B's length, whatever sweeps and drops the
\* replay of B's entries goes through.
C5_MergeLength ==
    \A s, o \in Slots : (IsBound(s) /\ IsBound(o)) =>
        /\ \A out \in merge(Deref(s), Deref(o)) :
              /\ out.raised = "none"
              /\ len(out.c) = len(Deref(s)) + len(Deref(o))
        /\ \A out \in merge(copy(Deref(s)).c, Deref(o)) :
              /\ out.raised = "none"
              /\ len(out.c) = len(Deref(s)) + len(Deref(o))

\* a Counter that never swept yet carries an offset was merged with a swept
\* one, whose table held less than its length
C5_Witness ==
    \E s \in Slots :
        /\ IsBound(s) /\ ~swept[s] /\ counters[s].offset > 0
        /\ TableSum(s) < len(Deref(s))
        /\ len(Deref(s)) = TruthSum(s)

\* the keys a Counter was given weight for
Distinct(s) == {k \in AllKeys : truth[s][k] > 0}

\* C6: exactness under no eviction. Under update(), clear() and copy() alone,
\* as long as the distinct keys given to a Counter do not exceed its capacity,
\* it never swept, its offset is 0 and frequency(key) = (true, true) for every
\* key.
C6_Exactness ==
    \A s \in Slots :
        (IsBound(s) /\ Cardinality(Distinct(s)) <= counters[s].size) =>
            /\ ~swept[s]
            /\ counters[s].offset = 0
            /\ \A k \in AllKeys :
                  frequency(Deref(s), k) = <<truth[s][k], truth[s][k]>>

\* a Counter of capacity 2 given exactly two keys, one of them more than once
C6_Witness ==
    \E s \in Slots :
        /\ IsBound(s) /\ counters[s].size = 2
        /\ Cardinality(Distinct(s)) = 2
        /\ len(Deref(s)) >= 3
        /\ \E k \in Keys : frequency(Deref(s), k) = <<2, 2>>

\* the order-th smallest of the counts of the keys in S
KthSmallest(index, S, k) ==
    CHOOSE v \in {index[x] : x \in S} :
        /\ Cardinality({x \in S : index[x] < v}) <= k
        /\ k < Cardinality({x \in S : index[x] <= v})

\* what an update of an untracked key leaves of a full table, for threshold c
AfterThreshold(index, key, val, c) ==
    [x \in {y \in DOMAIN index : index[y] > c} \cup (IF val > c THEN {key} ELSE {})
        |-> IF x = key THEN val - c ELSE index[x] - c]

\* C7: the full-table update step. In every reachable state with a full
\* table, every outcome of update(key, val > 0) for an untracked key has a
\* threshold c, the order-th smallest of some sample of sampleSize counts, such
\* that exactly the keys with count > c remain, each reduced by c, the offset
\* grew by c, and key is tracked with val - c iff val > c. And test_top_k ends
\* with 'foo' untracked, '4' tracked, and frequency('foo') = (0, offset),
\* offset >= 100.
C7_FullTableUpdate ==
    /\ \A s \in Slots :
          (IsBound(s) /\ Cardinality(Tracked(s)) = counters[s].size) =>
              \A key \in AllKeys \ Tracked(s), val \in 1..(MaxVal + 1) :
                  \A out \in update(Deref(s), key, val) :
                      \E S \in SUBSET Tracked(s) :
                          /\ Cardinality(S) = counters[s].sample
                          /\ LET index == Deref(s).index
                                 c == KthSmallest(index, S, counters[s].order)
                             IN  /\ out.raised = "none"
                                 /\ out.swept
                                 /\ out.c.index = AfterThreshold(index, key, val, c)
                                 /\ out.c.offset = counters[s].offset + c
                                 /\ contains(out.c, key) <=> val > c
    /\ (scenario = "top_k" /\ Finished) =>
          /\ ~contains(Deref(1), "foo")
          /\ contains(Deref(1), "4")
          /\ frequency(Deref(1), "foo") = <<0, counters[1].offset>>
          /\ counters[1].offset >= 100

\* test_top_k has run to its end, through the sweep of the full table of five
C7_Witness ==
    /\ scenario = "top_k" /\ Finished
    /\ swept[1]
    /\ Tracked(1) = {"2", "3", "4"}
    /\ counters[1].offset = 2000

\* the ghosts of every slot but x are as they were: true of every call on x
\* (stated first in the step predicates, being the cheap conjunct to refute)
OthersKept(x) ==
    \A y \in Slots \ {x} : truth'[y] = truth[y] /\ swept'[y] = swept[y]

\* the step is a call whose receiver, or whose newly bound result, is slot x
CallOn(x) ==
    /\ OthersKept(x)
    /\ \/ \E key \in AllKeys, val \in Weights \cup BadWeights :
             IsBound(x) /\ DoUpdate(x, key, val)
       \/ \E o \in Slots : IsBound(x) /\ IsBound(o) /\ DoMerge(x, o)
       \/ IsBound(x) /\ DoClear(x)
       \/ \E s \in Slots : x = Result /\ IsBound(s) /\ s # x /\ DoCopy(s, x)
       \/ \E s, o \in Slots :
             x = Result /\ IsBound(s) /\ IsBound(o) /\ s # x /\ DoOr(s, o, x)

\* C8: copy independence and the non-mutating union. A step that binds
\* s.copy() leaves a Counter with s's capacity, sampleSize, order, length,
\* offset and table contents; a call on one Counter, or one that binds the
\* result of copy() or of s | o, leaves every other Counter as it was, s
\* included; and after A.update('foo', 100), B.update('foo', 100),
\* B.update('bar', 100), M = A | B: M.frequency('foo') = (200, 200),
\* M.frequency('bar') = (100, 100), A.frequency('foo') = (100, 100).
C8_CopyIndependence ==
    /\ [][/\ \A s \in Slots \ {Result} :
                \/ Deref(Result)' = Deref(s)
                \/ ~(IsBound(s) /\ OthersKept(Result) /\ truth'[Result] = truth[s]
                       /\ DoCopy(s, Result))
          /\ \A y \in Slots :
                \/ Deref(y)' = Deref(y)
                \/ ~(IsBound(y) /\ \E x \in Slots \ {y} : CallOn(x))]_vars
    /\ []((scenario = "union" /\ Finished) =>
            /\ frequency(Deref(Result), "foo") = <<200, 200>>
            /\ frequency(Deref(Result), "bar") = <<100, 100>>
            /\ frequency(Deref(1), "foo") = <<100, 100>>)

\* the result slot holds the copy of a swept Counter that was updated after
\* the copy, and the original is as it was when copied
C8_Witness ==
    \E s \in Slots \ {Result} :
        /\ IsBound(s) /\ IsBound(Result) /\ swept[s] /\ swept[Result]
        /\ counters[Result].size = counters[s].size
        /\ counters[Result].offset = counters[s].offset
        /\ len(Deref(Result)) > len(Deref(s))
        /\ \A k \in Keys : truth[Result][k] >= truth[s][k]
        /\ Deref(Result).index # Deref(s).index

\* C9: merge does not modify its argument. A step that is A.merge(B) for
\* distinct A and B, or that binds A | B, leaves B's table, length and offset
\* as they were, also when the replay sweeps A.
C9_MergeKeepsArgument ==
    [][/\ \A s, o \in Slots :
            \/ Deref(o)' = Deref(o)
            \/ ~(s # o /\ IsBound(s) /\ IsBound(o) /\ OthersKept(s) /\ DoMerge(s, o))
       /\ \A s, o \in Slots :
            \/ Deref(o)' = Deref(o)
            \/ ~(o # Result /\ IsBound(s) /\ IsBound(o) /\ OthersKept(Result)
                   /\ DoOr(s, o, Result))]_vars

\* test_merge has run to its end: s |= m gave s['foo'] = (300, 300) and m,
\* the argument, still has m['foo'] = (200, 200) and m['bar'] = (100, 100)
C9_Witness ==
    /\ scenario = "merge" /\ Finished
    /\ frequency(Deref(1), "foo") = <<300, 300>>
    /\ frequency(Deref(1), "bar") = <<100, 100>>
    /\ frequency(Deref(Result), "foo") = <<200, 200>>
    /\ frequency(Deref(Result), "bar") = <<100, 100>>
    /\ len(Deref(Result)) = 300

\* C10: a negative weight is rejected without side effects. In every reachable
\* state update(key, val < 0) raises ValueError, whether key is tracked and
\* whether the table is full, and a call that raised ValueError left length,
\* offset and table of every Counter as they were.
C10_NegativeRejected ==
    /\ [](\A s \in Slots : IsBound(s) =>
            \A key \in AllKeys, val \in BadWeights :
                \A out \in update(Deref(s), key, val) :
                    out.raised = "ValueError" /\ out.c = Deref(s))
    /\ [][raised' = "ValueError" => UNCHANGED <<counters, dicts>>]_vars

\* a negative update was just rejected by a swept Counter with a full table
C10_Witness ==
    /\ raised = "ValueError"
    /\ \E s \in Slots :
          IsBound(s) /\ swept[s] /\ Cardinality(Tracked(s)) = counters[s].size

\* C11: zero weight is a no-op. In every reachable state update(key, 0)
\* returns normally with length, offset and table as they were, no key
\* inserted and no rebalance run, also when the table is full and the key is
\* untracked; and a step that is such a call changes no Counter.
C11_ZeroNoOp ==
    /\ [](\A s \in Slots : IsBound(s) =>
            \A key \in AllKeys :
                update(Deref(s), key, 0) =
                    {[c |-> Deref(s), raised |-> "none", swept |-> FALSE]})
    /\ [][\/ UNCHANGED <<counters, dicts, truth, swept>>
          \/ ~(\E s \in Slots, key \in AllKeys : IsBound(s) /\ DoUpdate(s, key, 0))]_vars

\* a swept Counter whose table is full and does not track `key`: the state
\* update(key, 0) is called in, and the state it leaves
C11_Witness ==
    \E s \in Slots, key \in Keys :
        /\ IsBound(s) /\ swept[s] /\ raised = "none"
        /\ Cardinality(Tracked(s)) = counters[s].size
        /\ key \notin Tracked(s)
        /\ TotalLength = MaxLength
        /\ ENABLED Update(s, key, 0)

\* sorted(s)[k]: the value with at most k items of s below it and more than k
\* items not above it
SortedAt(s, k) == KthSmallest(s, DOMAIN s, k)

\* C12: selector correctness. For every non-empty list s of numbers, lists
\* with duplicates and lists of length 1 included, and every k with
\* 0 <= k < len(s), select(s, k) returns sorted(s)[k], whatever order earlier
\* calls left s in.
C12_SelectCorrect ==
    (answer # None /\ 0 <= answer.k /\ answer.k < Len(answer.given)) =>
        /\ answer.raised = "none"
        /\ answer.value = SortedAt(answer.given, answer.k)

\* select() was given an unsorted list with a duplicate, partitioned it and
\* answered with a value that was not at position k
C12_Witness ==
    /\ answer # None /\ answer.raised = "none"
    /\ Len(answer.given) >= 3
    /\ \E i, j \in DOMAIN answer.given : i < j /\ answer.given[i] = answer.given[j]
    /\ \E i, j \in DOMAIN answer.given : i < j /\ answer.given[i] > answer.given[j]
    /\ data # answer.given
    /\ answer.given[answer.k + 1] # answer.value

\* C13: selection-range error. select(s, k) with k < 0 or k >= len(s), which
\* is every k when s is empty, raises ValueError, and s is in the order it was
\* given in.
C13_SelectRange ==
    (answer # None /\ (answer.k < 0 \/ answer.k >= Len(answer.given))) =>
        /\ answer.raised = "ValueError"
        /\ data = answer.given

\* select(data, len(data)) was refused on an unsorted list
C13_Witness ==
    /\ answer # None /\ answer.raised = "ValueError"
    /\ answer.k = Len(answer.given)
    /\ Len(data) >= 2
    /\ \E i, j \in DOMAIN data : i < j /\ data[i] > data[j]

\* the step is a call of update(), merge() or clear() on the Counter in slot x
UpdateOn(x) ==
    /\ IsBound(x) /\ OthersKept(x)
    /\ \E key \in AllKeys, val \in Weights : DoUpdate(x, key, val)

MergeOn(x, o) == IsBound(x) /\ IsBound(o) /\ OthersKept(x) /\ DoMerge(x, o)

ClearOn(x) == IsBound(x) /\ OthersKept(x) /\ DoClear(x)

CopyOf(s) ==
    /\ s # Result /\ IsBound(s) /\ OthersKept(Result) /\ truth'[Result] = truth[s]
    /\ DoCopy(s, Result)

\* the step left in slot x what an update() or a merge() that ran _decrement
\* leaves
SweptByUpdate(x) ==
    \E key \in AllKeys, val \in Weights :
        \E out \in update(Deref(x), key, val) : out.swept /\ Deref(x)' = out.c

SweptByMerge(x, o) ==
    \E out \in merge(Deref(x), Deref(o)) : out.swept /\ Deref(x)' = out.c

\* C14 as stated: offset monotonicity. Across every step that is an update(),
\* a merge(), a clear() or a copy(), the offset of a Counter does not
\* decrease, and it changes only in a step that ran an eviction sweep.
C14_OffsetMonotonic ==
    [][\A x \in Slots :
          /\ \/ /\ counters'[x].offset >= counters[x].offset
                /\ \/ counters'[x].offset = counters[x].offset
                   \/ SweptByUpdate(x)
                   \/ \E o \in Slots : IsBound(o) /\ SweptByMerge(x, o)
             \/ ~(UpdateOn(x) \/ ClearOn(x) \/ \E o \in Slots : MergeOn(x, o))
          /\ \/ counters'[Result].offset = counters[x].offset
             \/ ~CopyOf(x)]_vars

\* C14 as amended: across every update(), merge() and copy() the offset does
\* not decrease. In every reachable state, every outcome of update() has an
\* offset that is at least the one before, and equal to it unless the call ran
\* an eviction sweep; every outcome of merge() has at least the sum of the two
\* offsets, and exactly the sum unless its replay ran a sweep; a copy has the
\* offset of its original; clear() sets it to 0.
C14_OffsetGrowth ==
    \A x \in Slots : IsBound(x) =>
        /\ \A key \in Keys \cup Tracked(x), val \in 0..(MaxVal + 1) :
              \A out \in update(Deref(x), key, val) :
                  /\ out.c.offset >= counters[x].offset
                  /\ out.c.offset = counters[x].offset \/ out.swept
        /\ \A o \in Slots : IsBound(o) =>
              \A out \in merge(Deref(x), Deref(o)) :
                  /\ out.c.offset >= counters[x].offset + counters[o].offset
                  /\ \/ out.c.offset = counters[x].offset + counters[o].offset
                     \/ out.swept
        /\ copy(Deref(x)).c.offset = counters[x].offset
        /\ clear(Deref(x)).offset = 0

\* a Counter that never ran a sweep has the offset of a swept one it was
\* merged with, on top of the length it had before
C14_Witness ==
    \E s, o \in Slots :
        /\ s # o /\ IsBound(s) /\ IsBound(o)
        /\ ~swept[s] /\ swept[o]
        /\ counters[o].offset > 0
        /\ counters[s].offset = counters[o].offset
        /\ len(Deref(s)) > len(Deref(o))

\* frequency(key)[0] of the Counter in slot x
LowerOf(x, key) == frequency(Deref(x), key)[1]

\* C15 as stated: merge never decreases an existing lower bound. Across every
\* step that is A.merge(B), for every key, A.frequency(key)[0] after the step
\* is at least what it was before. (A merge of a single entry that a call of
\* update() would match state for state is left out, so that a violating
\* step can only be a merge.)
C15_MergeKeepsLower ==
    [][\A x \in Slots, key \in Keys :
          \/ LowerOf(x, key)' >= LowerOf(x, key)
          \/ ~(\E o \in Slots : MergeOn(x, o))
          \/ UpdateOn(x)]_vars

\* C15 as amended: merge decreases a lower bound only by what its rebalances
\* took. In every reachable state, for every outcome of A.merge(B) and every
\* key, the lower bound after is A's before plus B's when the replay ran no
\* eviction sweep, hence not below A's before; and in every case it is at
\* least that sum minus the thresholds of the sweeps the replay ran, which is
\* the growth of A's offset beyond B's offset.
C15_MergeLowerBound ==
    \A x, o \in Slots : (IsBound(x) /\ IsBound(o)) =>
        \A out \in merge(Deref(x), Deref(o)) :
            LET taken == out.c.offset - counters[x].offset - counters[o].offset
            IN  \A key \in Keys :
                    /\ frequency(out.c, key)[1]
                          >= LowerOf(x, key) + LowerOf(o, key) - taken
                    /\ out.swept \/
                          frequency(out.c, key)[1] = LowerOf(x, key) + LowerOf(o, key)
                    /\ out.swept \/ frequency(out.c, key)[1] >= LowerOf(x, key)

\* m = s | o is bound next to its operands: s never ran a sweep, the merge
\* into its copy did, and m's lower bound of a key s tracks is below s's
C15_Witness ==
    \E s, o \in Slots \ {Result}, key \in Keys :
        /\ IsBound(s) /\ IsBound(o) /\ IsBound(Result)
        /\ ~swept[s] /\ swept[Result]
        /\ truth[Result] = [k \in AllKeys |-> truth[s][k] + truth[o][k]]
        /\ len(Deref(Result)) = len(Deref(s)) + len(Deref(o))
        /\ key \in Tracked(s)
        /\ LowerOf(Result, key) < LowerOf(s, key)
        /\ \E out \in merge(copy(Deref(s)).c, Deref(o)) :
              out.swept /\ out.c = Deref(Result)

\* C16: merging an empty Counter is the identity. In every reachable state,
\* for every Counter C, C.merge(E) for a freshly constructed E, of any
\* capacity, and for E any Counter just cleared, returns normally with C's
\* table, length and offset as they were and runs no eviction sweep.
C16_MergeEmpty ==
    \A x \in Slots : IsBound(x) =>
        LET same == {[c |-> Deref(x), raised |-> "none", swept |-> FALSE]}
        IN  /\ \A e \in Constructed \cup {CounterInit(None, None, None).c} :
                  merge(Deref(x), e) = same
            /\ \A o \in Slots : IsBound(o) =>
                  merge(Deref(x), clear(Deref(o))) = same

\* a swept Counter with offset and a full table, next to an empty one it can
\* merge: the state C.merge(E) is called in, and the state it leaves
C16_Witness ==
    \E x, o \in Slots :
        /\ x # o /\ IsBound(x) /\ IsBound(o)
        /\ swept[x] /\ counters[x].offset > 0
        /\ Cardinality(Tracked(x)) = counters[x].size
        /\ Deref(o) = clear(Deref(o))
        /\ raised = "none"
        /\ ENABLED Merge(x, o)

\* C17: residual-length error bound. In every state reached by update(),
\* merge(), clear() and copy(), the offset of a Counter plus the sum of the
\* counts in its table is at most its length.
C17_ResidualBound ==
    \A s \in Slots : IsBound(s) =>
        counters[s].offset + TableSum(s) <= len(Deref(s))

\* a Counter that tracks a key and never ran a sweep has an offset, taken over
\* in a merge, and offset plus counts stay below its length
C17_Witness ==
    \E s \in Slots :
        /\ IsBound(s) /\ ~swept[s]
        /\ counters[s].offset > 0
        /\ Tracked(s) # {}
        /\ counters[s].offset + TableSum(s) < len(Deref(s))

\* frequency(key)[1] of the Counter in slot x
UpperOf(x, key) == frequency(Deref(x), key)[2]

\* C18: upper bounds never shrink. In every reachable state, for every key,
\* tracked or not, every outcome of update() and of merge() has an upper bound
\* frequency(key)[1] that is at least the one before the call, also when the
\* call reduced the key's count in a rebalance or evicted it; a copy has the
\* upper bounds of its original, so that only clear() lowers one.
C18_UpperNeverShrinks ==
    \A x \in Slots : IsBound(x) =>
        /\ \A key \in Keys \cup Tracked(x), val \in 0..(MaxVal + 1) :
              \A out \in update(Deref(x), key, val) :
                  \A k \in Keys \cup Tracked(x) :
                      frequency(out.c, k)[2] >= UpperOf(x, k)
        /\ \A o \in Slots : IsBound(o) =>
              \A out \in merge(Deref(x), Deref(o)) :
                  \A k \in Keys \cup Tracked(x) \cup Tracked(o) :
                      frequency(out.c, k)[2] >= UpperOf(x, k)
        /\ \A k \in Keys \cup Tracked(x) :
              frequency(copy(Deref(x)).c, k)[2] = UpperOf(x, k)

\* a Counter ran a sweep that evicted one key it was given and reduced the
\* count of another it still tracks; the upper bounds of both cover what was
\* given
C18_Witness ==
    \E s \in Slots, k1, k2 \in Keys :
        /\ IsBound(s) /\ swept[s]
        /\ k1 \notin Tracked(s) /\ truth[s][k1] > 0
        /\ k2 \in Tracked(s) /\ LowerOf(s, k2) < truth[s][k2]
        /\ UpperOf(s, k1) >= truth[s][k1]
        /\ UpperOf(s, k2) >= truth[s][k2]

\* C19: tracked counts are strictly positive. In every reachable state every
\* count in a table is > 0, so a key is tracked iff its lower bound is > 0;
\* and on every full table every threshold _decrement can pick is > 0 and the
\* sweep leaves a strictly larger offset.
C19_CountsPositive ==
    \A s \in Slots : IsBound(s) =>
        /\ \A k \in Tracked(s) : Deref(s).index[k] > 0
        /\ \A k \in AllKeys : contains(Deref(s), k) <=> LowerOf(s, k) > 0
        /\ Cardinality(Tracked(s)) = counters[s].size =>
              \A d \in _decrement(Deref(s)) :
                  /\ d.threshold > 0
                  /\ d.c.offset > counters[s].offset
                  /\ \A k \in DOMAIN d.c.index : d.c.index[k] > 0

\* a full table of two after a sweep: both keys were given more than the
\* count they are left with, which is 1
C19_Witness ==
    \E s \in Slots :
        /\ IsBound(s) /\ swept[s] /\ counters[s].offset > 0
        /\ counters[s].size = 2 /\ Cardinality(Tracked(s)) = 2
        /\ \A k \in Tracked(s) : Deref(s).index[k] = 1 /\ truth[s][k] > 1

\* C20: the preconditions of a rebalance always hold. Every Counter a
\* constructor returned has 1 <= sample <= size and 0 <= order < sample, and
\* construction with sample 0 or with capacity 0 raises ValueError whatever the
\* other arguments; update() runs _decrement only on a table of exactly `size`
\* keys, where the sample and select(sample, order) are within range; and
\* every update() with a weight >= 0 and every merge() returns normally, so
\* that the only call that raises is a constructor, which binds nothing.
C20_RebalancePreconditions ==
    /\ [](/\ \A s \in Slots : IsBound(s) =>
                /\ 1 <= counters[s].sample /\ counters[s].sample <= counters[s].size
                /\ 0 <= counters[s].order /\ counters[s].order < counters[s].sample
                /\ \A key \in Keys \cup Tracked(s), val \in 0..(MaxVal + 1) :
                      \A out \in update(Deref(s), key, val) :
                          /\ out.raised = "none"
                          /\ out.swept =>
                                Cardinality(Tracked(s)) = counters[s].size
                /\ Cardinality(Tracked(s)) = counters[s].size =>
                      /\ counters[s].sample <= Cardinality(Tracked(s))
                      /\ \A d \in _decrement(Deref(s)) : d.raised = "none"
                /\ \A o \in Slots : IsBound(o) =>
                      \A out \in merge(Deref(s), Deref(o)) : out.raised = "none"
          /\ \A a \in AnyCtorArgs :
                (a[1] = Some(0) \/ a[2] = Some(0)) =>
                    CounterInit(a[1], a[2], a[3]).raised = "ValueError")
    /\ [][raised' # "none" =>
            /\ UNCHANGED <<counters, dicts, truth, swept>>
            /\ \E s \in Slots \ {Result}, a \in AnyCtorArgs :
                  /\ ~IsBound(s)
                  /\ CounterInit(a[1], a[2], a[3]).raised = raised']_vars

\* a Counter built with sample 2 and order 1 has run a sweep on its full
\* table, and the construction of the other Counter has just been refused
C20_Witness ==
    \E s, o \in Slots \ {Result} :
        /\ IsBound(s) /\ ~IsBound(o)
        /\ counters[s].size = 2 /\ counters[s].sample = 2 /\ counters[s].order = 1
        /\ swept[s] /\ counters[s].offset > 0
        /\ raised = "ValueError"

====
